---- MODULE Spec2Model ----
(***************************************************************************)
(* Model of scripts/upstream-sync-analysis.py: one run of main(), stepped  *)
(* at every call of run_git.  Text is a sequence of character codes, so    *)
(* that strip / split / join / sorted act on it the way Python does.  In   *)
(* the literal lines of the report a backquote is written as a quote (').  *)
(***************************************************************************)
EXTENDS Integers, Sequences, FiniteSets

\* ------------------------------------------------------------------ bounds
NumCommits == 2      \* commit identifiers the backend may answer with
NumPaths == 3        \* file paths the backend may answer with
MaxDiffLines == 3    \* longest diff fed to get_file_diff on its own
MaxMaxLines == 2     \* largest max_lines argument tried on its own

\* ------------------------------------------------------- character codes
NL == 10
SP == 32
HashLen == 9
DefaultMaxLines == 50
ShortHash == 8

IsSpace(c) == c \in {NL, SP}

\* ---------------------------------------------------------- str helpers
RECURSIVE LStrip(_)
LStrip(s) == IF s # <<>> /\ IsSpace(Head(s)) THEN LStrip(Tail(s)) ELSE s

RECURSIVE RStrip(_)
RStrip(s) == IF s # <<>> /\ IsSpace(s[Len(s)]) THEN RStrip(SubSeq(s, 1, Len(s) - 1)) ELSE s

\* str.strip()
Strip(s) == RStrip(LStrip(s))

\* str.split(sep): the empty string splits into one empty piece
RECURSIVE Split(_, _)
Split(s, sep) ==
    IF \E i \in 1..Len(s) : s[i] = sep
    THEN LET i == CHOOSE k \in 1..Len(s) : s[k] = sep /\ \A j \in 1..(k - 1) : s[j] # sep
         IN  <<SubSeq(s, 1, i - 1)>> \o Split(SubSeq(s, i + 1, Len(s)), sep)
    ELSE <<s>>

\* sep.join(pieces)
RECURSIVE Join(_, _)
Join(pieces, sep) ==
    IF pieces = <<>> THEN <<>>
    ELSE IF Len(pieces) = 1 THEN pieces[1]
    ELSE pieces[1] \o <<sep>> \o Join(Tail(pieces), sep)

\* s[:n]
Prefix(s, n) == SubSeq(s, 1, IF Len(s) < n THEN Len(s) ELSE n)

\* str(n) for n >= 0, in decimal digits
RECURSIVE Dec(_)
Dec(n) == IF n < 10 THEN <<48 + n>> ELSE Dec(n \div 10) \o <<48 + (n % 10)>>

\* str.lower() on ASCII
Lower(s) == [i \in 1..Len(s) |-> IF s[i] >= 65 /\ s[i] <= 90 THEN s[i] + 32 ELSE s[i]]

\* comparison of str: code point by code point, a proper prefix is smaller
RECURSIVE LexLess(_, _)
LexLess(a, b) ==
    IF b = <<>> THEN FALSE
    ELSE IF a = <<>> THEN TRUE
    ELSE IF Head(a) # Head(b) THEN Head(a) < Head(b)
    ELSE LexLess(Tail(a), Tail(b))

\* insertion of x into an ascending list
RECURSIVE Insert(_, _)
Insert(x, l) ==
    IF l = <<>> THEN <<x>>
    ELSE IF LexLess(x, Head(l)) THEN <<x>> \o l
    ELSE <<Head(l)>> \o Insert(x, Tail(l))

\* the iteration order used as it comes
Unsorted(iter) == iter

\* sorted(iterable): the ascending list of the items of an iteration order
RECURSIVE Sorted(_)
Sorted(iter) == IF iter = <<>> THEN <<>> ELSE Insert(Head(iter), Sorted(Tail(iter)))

\* the orders in which iterating a set may yield its elements
Iterations(S) == {f \in [1..Cardinality(S) -> S] : \A i, j \in 1..Cardinality(S) : i # j => f[i] # f[j]}

\* set(list)
SetOf(l) == {l[i] : i \in 1..Len(l)}

\* ------------------------------------------------------ backend's answers
\* what git prints for a list of lines: each line and a newline
RECURSIVE Printed(_)
Printed(ls) == IF ls = <<>> THEN <<>> ELSE Head(ls) \o <<NL>> \o Printed(Tail(ls))

\* a commit identifier: HashLen characters, distinct in the first
Hash(i) == [k \in 1..HashLen |-> IF k = 1 THEN 96 + i ELSE 48]
Commits == {Hash(i) : i \in 1..NumCommits}

\* "b.txt", "a.txt", "c.txt", "a", "ab.txt", ...
PathName(i) ==
    IF i = 1 THEN <<98, 46, 116, 120, 116>>
    ELSE IF i = 2 THEN <<97, 46, 116, 120, 116>>
    ELSE IF i = 3 THEN <<99, 46, 116, 120, 116>>
    ELSE IF i = 4 THEN <<97>>
    ELSE <<97>> \o Dec(i) \o <<46, 116, 120, 116>>
Paths == {PathName(i) : i \in 1..NumPaths}

\* lists without repetition over S, of length at most n
Lists(S, n) == UNION {Iterations(T) : T \in {X \in SUBSET S : Cardinality(X) <= n}}

\* what rev-list prints for a reference that exists: its commits, newest first
Histories == Lists(Commits, NumCommits) \ {<<>>}

\* "<hash> m": one line of git log --oneline
LogLine(i) == Prefix(Hash(i), ShortHash - 1) \o <<SP, 109>>
\* no commit since the fork point, or two
LogAnswers == {<<>>, <<LogLine(2), LogLine(1)>>}

\* a diff of n lines, each "+"; the backend answers with no diff or a long one
DiffOf(n) == [k \in 1..n |-> <<43>>]
DiffAnswers == {DiffOf(0), DiffOf(DefaultMaxLines + 2)}

\* the outcome of subprocess.run: git ran and printed raw (rc 0), git ended
\* with a fatal error and printed nothing on stdout (rc 128), or the call
\* raised (no git executable, undecodable output)
Ok(ls) == [kind |-> "ok", ans |-> ls, raw |-> Printed(ls)]
GitError == [kind |-> "error", ans |-> <<>>, raw |-> <<>>]
Raised == [kind |-> "raise", ans |-> <<>>, raw |-> <<>>]
Outcomes(answers) == {Ok(a) : a \in answers} \cup {GitError, Raised}

\* ------------------------------------------------------------------ state
VARIABLES
    pc,                  \* position of the run in main()
    issued,              \* the git commands run so far, in order
    failed,              \* some git command so far failed (rc # 0 or raised)
    hist_mb,             \* the lines the backend answered to merge-base
    hist_upstream,       \* the backend's answer to rev-list upstream/main
    hist_fork,           \* the backend's answer to rev-list origin/main
    hist_root,           \* the backend's answer to rev-list --max-parents=0
    upstream_set,        \* get_fork_point's local upstream_commits
    fork_point, fork_files, upstream_files, conflict_files,
    safe_upstream_files, safe_fork_files, upstream_commits,
    force_env,           \* the value of FORCE_REPORT in the environment
    date,                \* datetime.now() at the start of generate_report
    lines,               \* generate_report's local lines
    todo,                \* the rest of sorted(conflict_files) to render
    report,              \* what generate_report returned
    stdout, stderr, exit_code,
    fd_pc, fd_lines, fd_max, fd_out   \* get_file_diff run on its own

histVars == <<hist_mb, hist_upstream, hist_fork, hist_root, upstream_set>>
analysisVars == <<fork_files, upstream_files, conflict_files, safe_upstream_files,
                  safe_fork_files, upstream_commits>>
reportVars == <<force_env, date, lines, todo, report>>
outVars == <<stdout, stderr, exit_code>>
fdVars == <<fd_pc, fd_lines, fd_max, fd_out>>
vars == <<pc, issued, failed, histVars, fork_point, analysisVars, reportVars, outVars, fdVars>>

\* a value no git answer and no environment value equals
None == <<0>>

\* run_git(args): the stripped standard output, whatever the return code
RunGit(result) == Strip(result.raw)

\* the merge-base lookup mistyped as a merge
CmdMerge(sub, form, ref, path) ==
    [sub |-> IF sub = "merge-base" THEN "merge" ELSE sub, form |-> form, ref |-> ref, path |-> path]

\* the argument vector of one git call
Cmd(sub, form, ref, path) == [sub |-> sub, form |-> form, ref |-> ref, path |-> path]

\* run_git's bookkeeping: the command is recorded, a failure is remembered
Ran(cmd, result) ==
    /\ issued' = Append(issued, cmd)
    /\ failed' = (failed \/ result.kind # "ok")

Init ==
    /\ pc = "merge_base"
    /\ issued = <<>>
    /\ failed = FALSE
    /\ hist_mb = <<>> /\ hist_upstream = <<>> /\ hist_fork = <<>> /\ hist_root = <<>>
    /\ upstream_set = {}
    /\ fork_point = None
    /\ fork_files = {} /\ upstream_files = {} /\ conflict_files = {}
    /\ safe_upstream_files = {} /\ safe_fork_files = {} /\ upstream_commits = <<>>
    /\ force_env = None /\ date = 0 /\ lines = <<>> /\ todo = <<>> /\ report = <<>>
    /\ stdout = <<>> /\ stderr = <<>> /\ exit_code = -1
    /\ fd_pc = "idle" /\ fd_lines = <<>> /\ fd_max = 1 /\ fd_out = <<>>

\* ---------------------------------------------------------- get_fork_point
\* the walk taken oldest-first: the last commit of the walk that is in the set
FirstCommonOldestFirst(walk, set) ==
    IF \E i \in 1..Len(walk) : walk[i] \in set
    THEN walk[CHOOSE i \in 1..Len(walk) : walk[i] \in set /\ \A j \in (i + 1)..Len(walk) : walk[j] \notin set]
    ELSE None

\* the first commit of the walk that is in the set, or None
FirstCommon(walk, set) ==
    IF \E i \in 1..Len(walk) : walk[i] \in set
    THEN walk[CHOOSE i \in 1..Len(walk) : walk[i] \in set /\ \A j \in 1..(i - 1) : walk[j] \notin set]
    ELSE None

MergeBase ==
    /\ pc = "merge_base"
    /\ \E r \in Outcomes({<<>>} \cup {<<c>> : c \in Commits}) :
        /\ Ran(Cmd("merge-base", "origin/main upstream/main", <<>>, <<>>), r)
        /\ hist_mb' = r.ans
        /\ IF r.kind = "raise"
           THEN pc' = "except" /\ UNCHANGED fork_point
           ELSE IF RunGit(r) # <<>>
           THEN pc' = "changed_fork" /\ fork_point' = RunGit(r)
           ELSE pc' = "rev_upstream" /\ UNCHANGED fork_point
    /\ UNCHANGED <<hist_upstream, hist_fork, hist_root, upstream_set, analysisVars,
                   reportVars, outVars, fdVars>>

RevListUpstream ==
    /\ pc = "rev_upstream"
    /\ \E r \in Outcomes(Histories) :
        /\ Ran(Cmd("rev-list", "upstream/main", <<>>, <<>>), r)
        /\ IF r.kind = "raise"
           THEN pc' = "except" /\ UNCHANGED <<hist_upstream, upstream_set>>
           ELSE /\ pc' = "rev_fork"
                /\ hist_upstream' = r.ans
                /\ upstream_set' = SetOf(Split(RunGit(r), NL))
    /\ UNCHANGED <<hist_mb, hist_fork, hist_root, fork_point, analysisVars, reportVars,
                   outVars, fdVars>>

RevListFork ==
    /\ pc = "rev_fork"
    /\ \E r \in Outcomes(Histories) :
        /\ Ran(Cmd("rev-list", "origin/main", <<>>, <<>>), r)
        /\ IF r.kind = "raise"
           THEN pc' = "except" /\ UNCHANGED <<hist_fork, fork_point>>
           ELSE LET walk == Split(RunGit(r), NL) IN
                /\ hist_fork' = r.ans
                /\ IF FirstCommon(walk, upstream_set) # None
                   THEN pc' = "changed_fork" /\ fork_point' = FirstCommon(walk, upstream_set)
                   ELSE pc' = "root" /\ UNCHANGED fork_point
    /\ UNCHANGED <<hist_mb, hist_upstream, hist_root, upstream_set, analysisVars,
                   reportVars, outVars, fdVars>>

RootCommit ==
    /\ pc = "root"
    /\ \E r \in Outcomes({<<c>> : c \in Commits}) :
        /\ Ran(Cmd("rev-list", "--max-parents=0 HEAD", <<>>, <<>>), r)
        /\ IF r.kind = "raise"
           THEN pc' = "except" /\ UNCHANGED <<hist_root, fork_point>>
           ELSE pc' = "changed_fork" /\ hist_root' = r.ans /\ fork_point' = RunGit(r)
    /\ UNCHANGED <<hist_mb, hist_upstream, hist_fork, upstream_set, analysisVars,
                   reportVars, outVars, fdVars>>

\* ------------------------------------------------------------ analyze_sync
GetChangedFiles(output) == IF output = <<>> THEN {} ELSE SetOf(Split(output, NL))

GetCommitLog(output) == IF output = <<>> THEN <<>> ELSE Split(output, NL)

\* "... (k more lines)"
MoreLines(k) ==
    <<46, 46, 46, SP, 40>> \o Dec(k) \o <<SP, 109, 111, 114, 101, SP, 108, 105, 110, 101, 115, 41>>

\* the truncation test off by one
GetFileDiffOffByOne(diff, max_lines) ==
    LET ls == Split(diff, NL) IN
    IF Len(ls) >= max_lines
    THEN Join(SubSeq(ls, 1, max_lines), NL) \o <<NL>> \o MoreLines(Len(ls) - max_lines)
    ELSE diff

GetFileDiff(diff, max_lines) ==
    LET ls == Split(diff, NL) IN
    IF Len(ls) > max_lines
    THEN Join(SubSeq(ls, 1, max_lines), NL) \o <<NL>> \o MoreLines(Len(ls) - max_lines)
    ELSE diff

\* fork_files = get_changed_files(fork_point, "origin/main"); get_fork_point has
\* returned, and what its queries answered is kept no longer
ChangedFork ==
    /\ pc = "changed_fork"
    /\ \E r \in Outcomes(Lists(Paths, NumPaths)) :
        /\ Ran(Cmd("diff", "--name-only {from}..origin/main", fork_point, <<>>), r)
        /\ IF r.kind = "raise"
           THEN pc' = "except" /\ UNCHANGED fork_files
           ELSE pc' = "changed_upstream" /\ fork_files' = GetChangedFiles(RunGit(r))
    /\ hist_mb' = <<>> /\ hist_upstream' = <<>> /\ hist_fork' = <<>> /\ hist_root' = <<>>
    /\ upstream_set' = {}
    /\ UNCHANGED <<fork_point, upstream_files, conflict_files, safe_upstream_files,
                   safe_fork_files, upstream_commits, reportVars, outVars, fdVars>>

Intersection(a, b) == a \cap b

\* the subtraction forgotten
DifferenceForgotten(a, b) == a

Difference(a, b) == a \ b

\* upstream_files and the three sets derived from the two change-sets
ChangedUpstream ==
    /\ pc = "changed_upstream"
    /\ \E r \in Outcomes(Lists(Paths, NumPaths)) :
        /\ Ran(Cmd("diff", "--name-only {from}..upstream/main", fork_point, <<>>), r)
        /\ IF r.kind = "raise"
           THEN /\ pc' = "except"
                /\ UNCHANGED <<upstream_files, conflict_files, safe_upstream_files, safe_fork_files>>
           ELSE LET up == GetChangedFiles(RunGit(r)) IN
                /\ pc' = "commit_log"
                /\ upstream_files' = up
                /\ conflict_files' = Intersection(fork_files, up)
                /\ safe_upstream_files' = Difference(up, fork_files)
                /\ safe_fork_files' = Difference(fork_files, up)
    /\ UNCHANGED <<histVars, fork_point, fork_files, upstream_commits, reportVars, outVars, fdVars>>

\* upstream_commits; analyze_sync returns the SyncAnalysis
CommitLog ==
    /\ pc = "commit_log"
    /\ \E r \in Outcomes(LogAnswers) :
        /\ Ran(Cmd("log", "--oneline --no-merges -50 {from}..upstream/main", fork_point, <<>>), r)
        /\ IF r.kind = "raise"
           THEN pc' = "except" /\ UNCHANGED upstream_commits
           ELSE pc' = "report" /\ upstream_commits' = GetCommitLog(RunGit(r))
    /\ UNCHANGED <<histVars, fork_point, fork_files, upstream_files, conflict_files,
                   safe_upstream_files, safe_fork_files, reportVars, outVars, fdVars>>

\* --------------------------------------------------------- generate_report
\* one element of lines: the literal text t with a number and a string put in
Line(t) == [t |-> t, n |-> 0, s |-> <<>>]
LineN(t, n) == [t |-> t, n |-> n, s |-> <<>>]
LineS(t, s) == [t |-> t, n |-> 0, s |-> s]
LineNS(t, n, s) == [t |-> t, n |-> n, s |-> s]

\* the readings of datetime.now()
Clock == {0, 1}

\* FORCE_REPORT: unset, "True", "1"
EnvValues == {None, <<84, 114, 117, 101>>, <<49>>}

\* os.environ.get("FORCE_REPORT", "false").lower() == "true"
ForceReport(env) ==
    Lower(IF env = None THEN <<102, 97, 108, 115, 101>> ELSE env) = <<116, 114, 117, 101>>

\* not analysis.upstream_files and not force_report
Suppressed(up, env) == up = {} /\ ~ForceReport(env)

SummaryLines(now) ==
    << LineN("# Upstream Sync Report - {date}", now),
       Line(""),
       Line("## Summary"),
       Line(""),
       Line("| Metric | Count |"),
       Line("|--------|-------|"),
       LineN("| Your customized files | {} |", Cardinality(fork_files)),
       LineN("| Upstream changed files | {} |", Cardinality(upstream_files)),
       LineN("| Potential conflicts | {} |", Cardinality(conflict_files)),
       LineN("| Safe to merge | {} |", Cardinality(safe_upstream_files)),
       Line(""),
       LineS("**Fork point:** '{}'", Prefix(fork_point, ShortHash)),
       Line("") >>

ConflictsIntro ==
    << Line("## Potential Conflicts"),
       Line(""),
       Line("These files were modified in **BOTH** your fork AND upstream."),
       Line("You will need to manually review and merge these changes."),
       Line("") >>

NoConflictsLines ==
    << Line("## No Conflicts Detected"),
       Line(""),
       Line("None of the upstream changes affect files you've customized."),
       Line("") >>

ConflictLines(i, filepath, diff) ==
    << LineNS("### {i}. '{filepath}'", i, filepath),
       Line(""),
       Line("<details>"),
       Line("<summary>View upstream changes</summary>"),
       Line(""),
       Line("'''diff"),
       IF diff # <<>> THEN LineS("{diff}", diff) ELSE Line("(no diff available)"),
       Line("'''"),
       Line(""),
       Line("</details>"),
       Line("") >>

\* the start of generate_report: the clock, the environment, the suppression
\* test, the summary and the head of the conflicts section
ReportStart ==
    /\ pc = "report"
    /\ \E now \in Clock, env \in EnvValues :
        /\ date' = now
        /\ force_env' = env
        /\ IF Suppressed(upstream_files, env)
           THEN pc' = "print" /\ report' = <<>> /\ UNCHANGED <<lines, todo>>
           ELSE IF conflict_files # {}
           THEN /\ pc' = "file_diff"
                /\ lines' = SummaryLines(now) \o ConflictsIntro
                /\ \E iter \in Iterations(conflict_files) : todo' = Sorted(iter)
                /\ UNCHANGED report
           ELSE /\ pc' = "finish"
                /\ lines' = SummaryLines(now) \o NoConflictsLines
                /\ UNCHANGED <<todo, report>>
    /\ UNCHANGED <<issued, failed, histVars, fork_point, analysisVars, outVars, fdVars>>

\* one turn of the loop over sorted(conflict_files)
FileDiff ==
    /\ pc = "file_diff"
    /\ todo # <<>>
    /\ \E r \in Outcomes(DiffAnswers) :
        /\ Ran(Cmd("diff", "{from}..upstream/main -- {path}", fork_point, Head(todo)), r)
        /\ IF r.kind = "raise"
           THEN pc' = "except" /\ UNCHANGED <<lines, todo>>
           ELSE /\ lines' = lines \o ConflictLines(Cardinality(conflict_files) - Len(todo) + 1,
                                                   Head(todo),
                                                   GetFileDiff(RunGit(r), DefaultMaxLines))
                /\ todo' = Tail(todo)
                /\ pc' = IF Tail(todo) = <<>> THEN "finish" ELSE "file_diff"
    /\ UNCHANGED <<histVars, fork_point, analysisVars, force_env, date, report, outVars, fdVars>>

FileList(sorted) == [k \in 1..Len(sorted) |-> LineS("- '{filepath}'", sorted[k])]

SafeUpdatesLines(sorted) ==
    IF safe_upstream_files = {} THEN <<>>
    ELSE << Line("## Safe Upstream Updates"),
            Line(""),
            Line("These upstream changes don't affect your customizations:"),
            Line(""),
            Line("<details>"),
            LineN("<summary>View all safe updates ({} files)</summary>", Cardinality(safe_upstream_files)),
            Line("") >>
         \o FileList(sorted)
         \o << Line(""), Line("</details>"), Line("") >>

\* the customizations section guarded by the wrong set
CustomizationsLinesWrongGuard(sorted) ==
    IF safe_upstream_files = {} THEN <<>>
    ELSE << Line("## Your Customizations (untouched by upstream)"),
            Line(""),
            Line("These files you've modified are not affected by upstream changes:"),
            Line(""),
            Line("<details>"),
            LineN("<summary>View your customizations ({} files)</summary>", Cardinality(safe_fork_files)),
            Line("") >>
         \o FileList(sorted)
         \o << Line(""), Line("</details>"), Line("") >>

CustomizationsLines(sorted) ==
    IF safe_fork_files = {} THEN <<>>
    ELSE << Line("## Your Customizations (untouched by upstream)"),
            Line(""),
            Line("These files you've modified are not affected by upstream changes:"),
            Line(""),
            Line("<details>"),
            LineN("<summary>View your customizations ({} files)</summary>", Cardinality(safe_fork_files)),
            Line("") >>
         \o FileList(sorted)
         \o << Line(""), Line("</details>"), Line("") >>

CommitsLines ==
    IF upstream_commits = <<>> THEN <<>>
    ELSE << Line("## Recent Upstream Commits"),
            Line(""),
            Line("<details>"),
            LineN("<summary>View recent commits ({} shown)</summary>", Len(upstream_commits)),
            Line(""),
            Line("'''") >>
         \o [k \in 1..Len(upstream_commits) |-> LineS("{commit}", upstream_commits[k])]
         \o << Line("'''"), Line(""), Line("</details>"), Line("") >>

MergeWithConflicts ==
    << Line("1. **Review conflicts** listed above carefully"),
       Line("2. **Create backup branch:**"),
       Line("   '''bash"),
       Line("   git checkout -b backup-$(date +%Y%m%d)"),
       Line("   git checkout main"),
       Line("   '''"),
       Line("3. **Fetch and merge upstream:**"),
       Line("   '''bash"),
       Line("   git fetch upstream"),
       Line("   git merge upstream/main"),
       Line("   '''"),
       Line("4. **Resolve conflicts** in your editor"),
       Line("5. **Complete merge:**"),
       Line("   '''bash"),
       Line("   git add ."),
       Line("   git commit -m \"Merge upstream/main\""),
       Line("   '''"),
       Line("6. **Test** your customizations still work"),
       Line("7. **Push** to your fork:"),
       Line("   '''bash"),
       Line("   git push origin main"),
       Line("   '''") >>

MergeDirectly ==
    << Line("No conflicts detected! You can safely merge upstream:"),
       Line(""),
       Line("'''bash"),
       Line("git fetch upstream"),
       Line("git merge upstream/main"),
       Line("git push origin main"),
       Line("'''") >>

ActionsLines ==
    << Line("## Recommended Actions"), Line("") >>
    \o (IF conflict_files # {} THEN MergeWithConflicts ELSE MergeDirectly)

FooterLines(now) ==
    << Line(""),
       Line("---"),
       LineN("*Generated by Upstream Sync Monitor on {now}*", now) >>

\* "\n".join(lines), kept as the list of the lines it joins; "" is <<>>
JoinLines(ls) == IF ls = <<Line("")>> THEN <<>> ELSE ls

\* the rest of generate_report, from the safe updates to the return
ReportFinish ==
    /\ pc = "finish"
    /\ \E now \in Clock, up \in Iterations(safe_upstream_files), fk \in Iterations(safe_fork_files) :
        /\ now >= date
        /\ lines' = lines \o SafeUpdatesLines(Sorted(up)) \o CustomizationsLines(Sorted(fk))
                          \o CommitsLines \o ActionsLines \o FooterLines(now)
        /\ report' = JoinLines(lines')
    /\ pc' = "print"
    /\ UNCHANGED <<issued, failed, histVars, fork_point, analysisVars, force_env, date, todo,
                   outVars, fdVars>>

\* ------------------------------------------------------------------- main
\* what print() writes after its argument
EndOfPrint == Line("\n")

\* print(report)
PrintReport ==
    /\ pc = "print"
    /\ stdout' = stdout \o report \o <<EndOfPrint>>
    /\ exit_code' = 0
    /\ pc' = "done"
    /\ UNCHANGED <<issued, failed, histVars, fork_point, analysisVars, reportVars, stderr, fdVars>>

\* the handler also printing what was rendered so far
ExceptPrintingPartial ==
    /\ pc = "except"
    /\ stdout' = stdout \o lines
    /\ stderr' = stderr \o <<Line("Error during analysis: {e}"), EndOfPrint>>
    /\ exit_code' = 1
    /\ pc' = "done"
    /\ UNCHANGED <<issued, failed, histVars, fork_point, analysisVars, reportVars, fdVars>>

\* except Exception as e: the message on stderr, sys.exit(1)
Except ==
    /\ pc = "except"
    /\ stderr' = stderr \o <<Line("Error during analysis: {e}"), EndOfPrint>>
    /\ exit_code' = 1
    /\ pc' = "done"
    /\ UNCHANGED <<issued, failed, histVars, fork_point, analysisVars, reportVars, stdout, fdVars>>

Next ==
    \/ MergeBase
    \/ RevListUpstream
    \/ RevListFork
    \/ RootCommit
    \/ ChangedFork
    \/ ChangedUpstream
    \/ CommitLog
    \/ ReportStart
    \/ FileDiff
    \/ ReportFinish
    \/ PrintReport
    \/ Except

Spec == Init /\ [][Next]_vars

\* ------------------------------------------------- get_file_diff on its own
\* the lines a diff is made of: "+", "-", " " (an empty line of context)
DiffLineChoices == {<<43>>, <<45>>, <<SP>>}

RECURSIVE SeqsUpTo(_, _)
SeqsUpTo(S, n) ==
    IF n = 0 THEN {<<>>}
    ELSE LET shorter == SeqsUpTo(S, n - 1) IN
         shorter \cup {Append(l, x) : l \in shorter, x \in S}

InitDiff ==
    /\ pc = "idle"
    /\ issued = <<>>
    /\ failed = FALSE
    /\ hist_mb = <<>> /\ hist_upstream = <<>> /\ hist_fork = <<>> /\ hist_root = <<>>
    /\ upstream_set = {}
    /\ fork_point = None
    /\ fork_files = {} /\ upstream_files = {} /\ conflict_files = {}
    /\ safe_upstream_files = {} /\ safe_fork_files = {} /\ upstream_commits = <<>>
    /\ force_env = None /\ date = 0 /\ lines = <<>> /\ todo = <<>> /\ report = <<>>
    /\ stdout = <<>> /\ stderr = <<>> /\ exit_code = -1
    /\ fd_pc = "call"
    /\ fd_lines \in SeqsUpTo(DiffLineChoices, MaxDiffLines)
    /\ fd_max \in 1..MaxMaxLines
    /\ fd_out = <<>>

\* get_file_diff(from_ref, to_ref, filepath, max_lines) where git prints fd_lines
CallFileDiff ==
    /\ fd_pc = "call"
    /\ fd_out' = GetFileDiff(RunGit(Ok(fd_lines)), fd_max)
    /\ fd_pc' = "returned"
    /\ UNCHANGED <<pc, issued, failed, histVars, fork_point, analysisVars, reportVars,
                   outVars, fd_lines, fd_max>>

NextDiff == CallFileDiff

SpecDiff == InitDiff /\ [][NextDiff]_vars

\* ================================================================= claims
\* analyze_sync has returned its SyncAnalysis
Analysed == pc \in {"report", "file_diff", "finish", "print"} \/ (pc = "done" /\ exit_code = 0)

\* generate_report has returned a report that is not empty
Reported == (pc = "print" \/ (pc = "done" /\ exit_code = 0)) /\ report # <<>>

\* C1: the SyncAnalysis that analyze_sync builds from the change-sets F =
\* fork_files and U = upstream_files has conflict_files = F \cap U,
\* safe_upstream_files = U \ F and safe_fork_files = F \ U; the three are
\* pairwise disjoint, their union is F \cup U, safe_upstream_files with
\* conflict_files is U and safe_fork_files with conflict_files is F.
C1_Partition ==
    Analysed =>
        /\ conflict_files = fork_files \cap upstream_files
        /\ safe_upstream_files = upstream_files \ fork_files
        /\ safe_fork_files = fork_files \ upstream_files
        /\ conflict_files \cap safe_upstream_files = {}
        /\ conflict_files \cap safe_fork_files = {}
        /\ safe_upstream_files \cap safe_fork_files = {}
        /\ conflict_files \cup safe_upstream_files \cup safe_fork_files = fork_files \cup upstream_files
        /\ safe_upstream_files \cup conflict_files = upstream_files
        /\ safe_fork_files \cup conflict_files = fork_files

C1_Witness ==
    /\ pc = "report"
    /\ conflict_files # {} /\ safe_upstream_files # {} /\ safe_fork_files # {}

\* get_fork_point has just returned to analyze_sync
Resolved == pc = "changed_fork"

\* C2: get_fork_point never returns the empty string, whatever the backend
\* answers to the merge-base query, the two history enumerations and the
\* root-commit query; when every query yields no output it raises an error
\* instead of returning.
C2_NeverEmpty == Resolved => fork_point # <<>>

\* the forms of the commands run so far
Forms == [i \in 1..Len(issued) |-> issued[i].form]

\* the fork history and the upstream history share a commit
Shared == \E i \in 1..Len(hist_fork) : hist_fork[i] \in SetOf(hist_upstream)

\* C3: a merge-base that is not empty is returned with no history enumerated;
\* otherwise the newest commit of the fork history that is in the upstream
\* history is returned; the root-commit query is run, and its answer returned,
\* only when the two histories share no commit.
C3_FallbackChain ==
    Resolved =>
        /\ hist_mb # <<>> =>
              /\ fork_point = hist_mb[1]
              /\ Forms = <<"origin/main upstream/main">>
        /\ (hist_mb = <<>> /\ Shared) =>
              /\ \E i \in 1..Len(hist_fork) :
                    /\ hist_fork[i] \in SetOf(hist_upstream)
                    /\ \A j \in 1..(i - 1) : hist_fork[j] \notin SetOf(hist_upstream)
                    /\ fork_point = hist_fork[i]
              /\ Forms = <<"origin/main upstream/main", "upstream/main", "origin/main">>
        /\ (\E i \in 1..Len(issued) : issued[i].form = "--max-parents=0 HEAD") =>
              /\ hist_mb = <<>>
              /\ ~Shared
              /\ Forms = <<"origin/main upstream/main", "upstream/main", "origin/main",
                           "--max-parents=0 HEAD">>
              /\ fork_point = IF hist_root = <<>> THEN <<>> ELSE hist_root[1]

C3_Witness ==
    /\ Resolved
    /\ hist_mb = <<>>
    /\ Len(hist_fork) = 2 /\ Len(hist_upstream) = 2
    /\ hist_fork[1] = hist_upstream[2]
    /\ fork_point = hist_fork[1]

\* the force-override flag is set: FORCE_REPORT is "true" in some casing
FlagSet == force_env \in {<<116, 114, 117, 101>>, <<84, 114, 117, 101>>, <<84, 82, 85, 69>>}

\* C4: generate_report returns the empty result exactly when upstream_files
\* is empty and the force-override flag is not set, and then nothing is
\* emitted on standard output; in every other case what is emitted is a report.
C4_SuppressedEmitsNothing ==
    (pc = "done" /\ exit_code = 0) =>
        /\ report = <<>> <=> (upstream_files = {} /\ ~FlagSet)
        /\ stdout = <<>> <=> (upstream_files = {} /\ ~FlagSet)

\* C5: a run in which a backend query failed ends with exit status 1 and a
\* message on standard error, never with exit status 0.
C5_FailuresAreFatal ==
    (pc = "done" /\ failed) => (exit_code = 1 /\ stderr # <<>>)

\* the diff that get_file_diff gets from run_git when git prints fd_lines
DiffText == RunGit(Ok(fd_lines))

\* the positions of the line ends of a text, and the number of its lines
LineEnds(text) == {i \in 1..Len(text) : text[i] = NL}
NumLines(text) == IF text = <<>> THEN 0 ELSE Cardinality(LineEnds(text)) + 1

\* the first k lines of a text of more than k lines
FirstLines(text, k) ==
    LET e == CHOOSE i \in LineEnds(text) : Cardinality({j \in LineEnds(text) : j < i}) = k - 1
    IN  SubSeq(text, 1, e - 1)

Marks ==
    { "## Summary", "## Potential Conflicts", "## No Conflicts Detected",
      "### {i}. '{filepath}'",
      "## Safe Upstream Updates", "## Your Customizations (untouched by upstream)",
      "## Recent Upstream Commits", "## Recommended Actions",
      "2. **Create backup branch:**", "3. **Fetch and merge upstream:**",
      "4. **Resolve conflicts** in your editor",
      "No conflicts detected! You can safely merge upstream:", "git fetch upstream",
      "*Generated by Upstream Sync Monitor on {now}*" }

\* the marks of a report, in the order they appear in it
MarksOf(rep) ==
    LET marked == SelectSeq(rep, LAMBDA l : l.t \in Marks)
    IN  [k \in 1..Len(marked) |-> marked[k].t]

\* C7: a report that is not empty has, in this order, the summary, the
\* conflicts section with one subsection per conflict file or else the
\* no-conflicts notice, the safe updates iff safe_upstream_files is not empty,
\* the customizations iff safe_fork_files is not empty, the recent commits iff
\* upstream_commits is not empty, the recommended actions (backup, merge,
\* resolve iff there are conflicts, fetch and merge otherwise) and, as its last
\* line, the footer.
C7_Sections ==
    Reported =>
        /\ MarksOf(report) =
              <<"## Summary">>
              \o (IF conflict_files # {}
                  THEN <<"## Potential Conflicts">>
                       \o [k \in 1..Cardinality(conflict_files) |-> "### {i}. '{filepath}'"]
                  ELSE <<"## No Conflicts Detected">>)
              \o (IF safe_upstream_files # {} THEN <<"## Safe Upstream Updates">> ELSE <<>>)
              \o (IF safe_fork_files # {}
                  THEN <<"## Your Customizations (untouched by upstream)">> ELSE <<>>)
              \o (IF upstream_commits # <<>> THEN <<"## Recent Upstream Commits">> ELSE <<>>)
              \o <<"## Recommended Actions">>
              \o (IF conflict_files # {}
                  THEN <<"2. **Create backup branch:**", "3. **Fetch and merge upstream:**",
                         "4. **Resolve conflicts** in your editor">>
                  ELSE <<"No conflicts detected! You can safely merge upstream:",
                         "git fetch upstream">>)
              \o <<"*Generated by Upstream Sync Monitor on {now}*">>
        /\ {l.s : l \in {report[k] : k \in {i \in 1..Len(report) : report[i].t = "### {i}. '{filepath}'"}}}
              = conflict_files
        /\ report[Len(report)].t = "*Generated by Upstream Sync Monitor on {now}*"

C7_Witness ==
    /\ Reported
    /\ Cardinality(conflict_files) = 1 /\ Cardinality(safe_upstream_files) = 1
    /\ safe_fork_files = {}
    /\ upstream_commits # <<>>
    /\ \E k \in 1..Len(report) : report[k].t = "4. **Resolve conflicts** in your editor"

\* code point order of two strings, without recursion
LexBefore(a, b) ==
    \E k \in 1..Len(b) :
        /\ \A j \in 1..(k - 1) : j <= Len(a) /\ a[j] = b[j]
        /\ (k = Len(a) + 1 \/ (k <= Len(a) /\ a[k] < b[k]))

\* l lists the set S without repetition, in ascending order
Ascending(l, S) ==
    /\ Len(l) = Cardinality(S)
    /\ SetOf(l) = S
    /\ \A i, j \in 1..Len(l) : i < j => LexBefore(l[i], l[j])

\* the file entries of the section of rep that starts at the heading head
EntriesUnder(rep, head) ==
    IF \E i \in 1..Len(rep) : rep[i].t = head
    THEN LET i == CHOOSE k \in 1..Len(rep) : rep[k].t = head
             j == CHOOSE k \in (i + 1)..Len(rep) :
                     /\ rep[k].t \in Marks
                     /\ \A m \in (i + 1)..(k - 1) : rep[m].t \notin Marks
             entries == SelectSeq(SubSeq(rep, i + 1, j - 1), LAMBDA l : l.t = "- '{filepath}'")
         IN  [k \in 1..Len(entries) |-> entries[k].s]
    ELSE <<>>

\* the conflict subsections of rep: their numbers and their paths
Subsections(rep) == SelectSeq(rep, LAMBDA l : l.t = "### {i}. '{filepath}'")

\* C8: whatever order the sets are iterated in, the conflict subsections, the
\* safe updates and the customizations are listed in ascending code point
\* order of path, the subsections numbered 1, 2, ...; so the lists of two
\* reports of equal analyses are equal.
C8_Ordering ==
    Reported =>
        /\ Ascending([k \in 1..Len(Subsections(report)) |-> Subsections(report)[k].s], conflict_files)
        /\ \A k \in 1..Len(Subsections(report)) : Subsections(report)[k].n = k
        /\ Ascending(EntriesUnder(report, "## Safe Upstream Updates"), safe_upstream_files)
        /\ Ascending(EntriesUnder(report, "## Your Customizations (untouched by upstream)"),
                     safe_fork_files)

\* upstream files {"b.txt", "a.txt", "c.txt"} are listed a.txt, b.txt, c.txt
C8_Witness ==
    /\ Reported
    /\ safe_upstream_files = {PathName(1), PathName(2), PathName(3)}
    /\ EntriesUnder(report, "## Safe Upstream Updates")
          = << <<97, 46, 116, 120, 116>>, <<98, 46, 116, 120, 116>>, <<99, 46, 116, 120, 116>> >>

\* C9: standard output stays empty until generate_report has returned and
\* main prints; it then holds the report and nothing else; a run that failed
\* has written nothing on standard output, a message on standard error, and
\* exits with status 1.
C9_AllOrNothing ==
    /\ stdout # <<>> => (pc = "done" /\ exit_code = 0 /\ stdout = report \o <<EndOfPrint>>)
    /\ exit_code = 1 => (pc = "done" /\ stdout = <<>> /\ stderr # <<>>)
    /\ (pc = "done" /\ exit_code = 0) => stderr = <<>>

\* a diff query failed after part of the report was rendered
C9_Witness ==
    /\ pc = "done" /\ exit_code = 1
    /\ Len(lines) > Len(SummaryLines(date) \o ConflictsIntro)
    /\ todo # <<>>
    /\ stdout = <<>>

\* the queries of git that leave the repository as it is
ReadOnlyQueries == {"merge-base", "rev-list", "diff", "log"}

\* C10: every git command that a run issues is one of the read-only queries
\* merge-base, rev-list, diff and log.
C10_ReadOnly == \A i \in 1..Len(issued) : issued[i].sub \in ReadOnlyQueries

\* a run through the whole fallback chain, both change-sets, the log and a diff
C10_Witness ==
    /\ pc = "done" /\ exit_code = 0
    /\ {issued[i].sub : i \in 1..Len(issued)} = ReadOnlyQueries
    /\ \E i \in 1..Len(issued) : issued[i].form = "--max-parents=0 HEAD"
    /\ \E i \in 1..Len(issued) : issued[i].form = "{from}..upstream/main -- {path}"

====
